---- MODULE Spec2Model ----
(***************************************************************************)
(* Model of the file listener service (file_listener_service.py):          *)
(* FileUploadHandler (exclusion, stability probe), FileUploadListener      *)
(* (add_upload_task, _upload_worker, start, stop) and the uploader         *)
(* collaborator as the worker sees it.                                     *)
(*                                                                         *)
(* Threads: the supervisor (main thread: start, stop), the observer thread *)
(* that runs the handler for one event at a time, the pool workers, and    *)
(* the environment that writes and deletes files.  Every step below is one *)
(* read or write of shared state (or a blocking call) of the source; the   *)
(* code takes no lock, so the steps interleave freely.                     *)
(***************************************************************************)
EXTENDS Integers, Sequences, FiniteSets, TLC

\* ---------------------------------------------------------------- bounds
\* change notifications handed to the handler in one run
MaxEvents == 2
\* writes/deletions the environment performs on watched files in one run
MaxWrites == 1
\* distinct file contents 1..MaxContent (0 is "no such file")
MaxContent == 2
\* worker threads of the pool (max_workers of the run is 1..MaxWorkers)
MaxWorkers == 2

\* directory checks the polling monitor makes in a run
MaxChecks == 2

\* ---------------------------------------------------------------- paths
\* A path is named by a short id; FilePath gives its text: the directory
\* segments (os.path.dirname(p).split(os.sep)) and the characters of the
\* file name (os.path.basename(p)).
FilePath(p) ==
  CASE p = "A"  -> [dir |-> <<"w">>, name |-> <<"a", ".", "p", "y">>]
    [] p = "B"  -> [dir |-> <<"w", "sub">>, name |-> <<"b", ".", "p", "y">>]
    [] p = "O"  -> [dir |-> <<"private", "w">>, name |-> <<"o", ".", "p", "y">>]
    [] p = "T1" -> [dir |-> <<"w">>, name |-> <<"x", ".", "t", "m", "p">>]
    [] p = "T2" -> [dir |-> <<"w">>, name |-> <<"~", "x">>]
    [] p = "T3" -> [dir |-> <<"w">>, name |-> <<"#", "x", "#">>]
    [] p = "DS" -> [dir |-> <<"w">>, name |-> <<".", "D", "S", "_", "S", "t", "o", "r", "e">>]
    [] p = "H"  -> [dir |-> <<"w">>, name |-> <<".", "h", "i", "d">>]
    [] p = "E"  -> [dir |-> <<"w">>, name |-> <<".", "e", "n", "v">>]
    [] p = "GI" -> [dir |-> <<"w">>, name |-> <<".", "g", "i", "t", "i", "g", "n", "o", "r", "e">>]
    [] p = "L"  -> [dir |-> <<"w">>, name |-> <<"x", ".", "l", "o", "g">>]
    [] p = "G"  -> [dir |-> <<"w", ".git">>, name |-> <<"c", "f", "g">>]
    [] p = "PC" -> [dir |-> <<"w", "__pycache__", "sub">>, name |-> <<"m", ".", "p", "y", "c">>]
    [] p = "NM" -> [dir |-> <<"w", "node_modules">>, name |-> <<"i", ".", "j", "s">>]
    [] p = "NF" -> [dir |-> <<"w">>, name |-> <<"n", "o", "d", "e", "_", "m", "o", "d", "u", "l", "e", "s">>]

\* the files of a run of the whole service: two files of the watched tree,
\* one reported under a root that is not textually the watched one (the
\* platform reports the resolved path), one temp file
ServicePaths == {"A", "O", "T1"}
\* the files of a run that exercises the exclusion rules
FilterPaths == {"T1", "T2", "T3", "DS", "H", "E", "L", "G", "PC", "NM", "NF"}
AllPaths == ServicePaths \cup FilterPaths \cup {"B", "GI"}

\* self.watch_directory, as segments
watch_directory == <<"w">>

StartsWith(s, pat) == Len(pat) <= Len(s) /\ SubSeq(s, 1, Len(pat)) = pat
EndsWith(s, pat) == Len(pat) <= Len(s) /\ SubSeq(s, Len(s) - Len(pat) + 1, Len(s)) = pat

temp_patterns ==
  { <<".", "t", "m", "p">>, <<".", "t", "e", "m", "p">>, <<".", "s", "w", "p">>,
    <<".", "l", "o", "c", "k">>, <<".", "p", "a", "r", "t">>, <<"~">>,
    <<".", "b", "a", "k">>, <<".", "b", "a", "c", "k", "u", "p">>, <<"#">>,
    <<".", "D", "S", "_", "S", "t", "o", "r", "e">> }

hidden_allowed == { <<".", "e", "n", "v">>, <<".", "g", "i", "t", "i", "g", "n", "o", "r", "e">> }

skip_dirs == {"__pycache__", ".git", ".svn", "node_modules"}

\* Faulty variant of _should_skip_file: the directory rule is left out
MutSkipNoDirs(p) ==
  LET file_name == FilePath(p).name
  IN \/ \E pat \in temp_patterns : EndsWith(file_name, pat) \/ StartsWith(file_name, pat)
     \/ StartsWith(file_name, <<".">>) /\ file_name \notin hidden_allowed
     \/ EndsWith(file_name, <<".", "l", "o", "g">>)

\* FileUploadHandler._should_skip_file
_should_skip_file(p) ==
  LET file_name == FilePath(p).name
      file_dir == FilePath(p).dir
  IN \/ \E pat \in temp_patterns : EndsWith(file_name, pat) \/ StartsWith(file_name, pat)
     \/ StartsWith(file_name, <<".">>) /\ file_name \notin hidden_allowed
     \/ EndsWith(file_name, <<".", "l", "o", "g">>)
     \/ \E i \in 1..Len(file_dir) : file_dir[i] \in skip_dirs

\* the files the service may come to read: those the exclusion gate lets pass
ReadablePaths == {p \in AllPaths : ~_should_skip_file(p)}

\* Path(file_path).relative_to(self.watch_directory) raises ValueError unless
\* the path lies textually under the watched directory
RelativeToRaises(p) == ~StartsWith(FilePath(p).dir, watch_directory)

\* ---------------------------------------------------------------- files
\* os.path.getsize of a file holding content c; contents 1 and 3 are two
\* different contents of the same size
Size(c) == (c % 2) + 1
\* _calculate_file_md5: the digest of content c
MD5(c) == <<"md5", c>>
NoDigest == <<"none">>

Counters == {"total_processed", "success_count", "failed_count", "skipped_count"}

VARIABLES
  root,             \* what the watch_directory argument names: "dir", "file", "missing"
  paths,            \* the files the environment touches in this run
  max_workers,      \* self.max_workers
  content,          \* the file system: path -> content, 0 when absent
  upload_queue,     \* self.upload_queue
  unfinished_tasks, \* self.upload_queue.unfinished_tasks (put / task_done)
  processing_files, \* self.processing_files
  uploaded_files,   \* self.uploaded_files: path -> digest (NoDigest: no key)
  stats,            \* self.stats counters
  running,          \* self.running
  observer,         \* self.observer: "none", "scheduled", "started", "stopped"
  m_pc,             \* supervisor thread: where start()/stop() stand
  h_pc, h_path, h_attempt, h_size1, h_md5, \* observer thread in _handle_file_change
  h_log,            \* the handler's last log line
  h_samples,        \* the sizes the running probe has read so far, in order
  h_arrival,        \* what held when the event being handled arrived
  w_pc, w_path, w_tmp, w_success, w_md5,   \* workers in _upload_worker
  invoked,          \* path -> number of _upload_single_file calls made
  n_events, n_writes,
  remote,           \* the remote store: path -> content of the resource of that name, 0 when none
  existing_files_cache, \* uploader.existing_files_cache: the confirmed (name, size, md5) keys
  check_interval,   \* FileMonitorUploader: the argument of start_monitoring
  mon_pc,           \* FileMonitorUploader: where start_monitoring stands
  mon_running,      \* FileMonitorUploader.running
  processed_files,  \* FileMonitorUploader.processed_files
  new_files,        \* the files of the current check still to be uploaded
  mon_uploads,      \* path -> results of the _activate_venv_and_upload calls
  mon_result,       \* what start_monitoring returned ("-" while it has not)
  n_checks          \* _check_new_files calls made

vars == <<root, paths, max_workers, content, upload_queue, unfinished_tasks, processing_files,
          uploaded_files, stats, running, observer, m_pc,
          h_pc, h_path, h_attempt, h_size1, h_md5, h_log, h_samples, h_arrival,
          w_pc, w_path, w_tmp, w_success, w_md5, invoked, n_events, n_writes,
          remote, existing_files_cache,
          check_interval, mon_pc, mon_running, processed_files, new_files,
          mon_uploads, mon_result, n_checks>>

fsVars == <<content, n_writes>>
sharedVars == <<upload_queue, unfinished_tasks, processing_files, uploaded_files, stats>>
lifeVars == <<running, observer, m_pc>>
handlerVars == <<h_pc, h_path, h_attempt, h_size1, h_md5, h_log, h_samples, h_arrival, n_events>>
workerVars == <<w_pc, w_path, w_tmp, w_success, w_md5, invoked>>
runVars == <<root, paths, max_workers>>
storeVars == <<remote, existing_files_cache>>
monVars == <<check_interval, mon_pc, mon_running, processed_files, new_files,
             mon_uploads, mon_result, n_checks>>

Workers == 1..max_workers
NoPath == "-"
\* the handler is not handling an event
NoArrival == [in_flight |-> FALSE, failed |-> FALSE]

\* the fields as FileMonitorUploader.__init__ sets them
InitMonitorFields ==
  /\ mon_pc = "new"
  /\ mon_running = FALSE
  /\ processed_files = {}
  /\ new_files = {}
  /\ mon_uploads = [p \in paths |-> <<>>]
  /\ mon_result = "-"
  /\ n_checks = 0

\* the fields as FileUploadListener.__init__ sets them (lines 163-181)
InitListenerFields ==
  /\ upload_queue = <<>>
  /\ unfinished_tasks = 0
  /\ processing_files = {}
  /\ uploaded_files = [p \in paths |-> NoDigest]
  /\ stats = [c \in Counters |-> 0]
  /\ running = FALSE
  /\ observer = "none"
  /\ h_pc = "idle" /\ h_path = NoPath /\ h_attempt = 0 /\ h_size1 = 0
  /\ h_md5 = NoDigest /\ h_log = "-" /\ h_samples = <<>> /\ h_arrival = NoArrival
  /\ w_pc = [w \in Workers |-> "off"]
  /\ w_path = [w \in Workers |-> NoPath]
  /\ w_tmp = [w \in Workers |-> 0]
  /\ w_success = [w \in Workers |-> FALSE]
  /\ w_md5 = [w \in Workers |-> NoDigest]
  /\ invoked = [p \in paths |-> 0]
  /\ n_events = 0 /\ n_writes = 0
  /\ existing_files_cache = {}

\* the remote store holds no resource with the name of a watched file
EmptyStore == remote = [p \in paths |-> 0]

\* the listener service constructed; the polling monitor is a program of
\* its own and is not run
InitFields ==
  InitListenerFields /\ EmptyStore /\ check_interval = 5 /\ InitMonitorFields

\* FileUploadListener.__init__ has returned (the watch directory is valid)
InitListener == InitFields /\ m_pc = "new"

Init ==
  /\ root = "dir"
  /\ paths = ServicePaths
  /\ max_workers = MaxWorkers
  /\ content = [p \in paths |-> 1]
  /\ InitListener

\* ---------------------------------------------------------------- environment
\* Something outside the service writes content c to file p, or deletes it
\* (c = 0).  Files the exclusion rules drop are never read by the service.
FsWrite(p, c) ==
  /\ n_writes < MaxWrites
  /\ p \in paths \cap ReadablePaths
  /\ content[p] # c
  /\ content' = [content EXCEPT ![p] = c]
  /\ n_writes' = n_writes + 1
  /\ UNCHANGED <<runVars, monVars, storeVars, sharedVars, lifeVars, handlerVars, workerVars>>

\* The same, without the bound on the number of writes (for runs of the
\* handler alone, where the files may change between any two samples)
FsChange(p, c) ==
  /\ p \in paths \cap ReadablePaths
  /\ content[p] # c
  /\ content' = [content EXCEPT ![p] = c]
  /\ UNCHANGED <<n_writes, runVars, monVars, storeVars, sharedVars, lifeVars, handlerVars, workerVars>>

\* ---------------------------------------------------------------- handler
\* tasks for path p waiting in the queue
QueueCount(p) == Cardinality({i \in 1..Len(upload_queue) : upload_queue[i] = p})
\* workers that have dequeued a task for p and not yet finished with it
HeldBy(p) == {w \in Workers : w_path[w] = p}
TasksFor(p) == QueueCount(p) + Cardinality(HeldBy(p))

\* an upload of p was attempted and a failure was counted (in the runs
\* this is used for, one file only ever reaches the uploader)
FailedBefore(p) == invoked[p] > 0 /\ stats["failed_count"] > 0

\* The situation an event for p arrives in: whether a task for p is in
\* flight (queued, held by a worker or marked in processing_files) and
\* whether an upload of p has failed before
Arrival(p) ==
  [in_flight |-> TasksFor(p) > 0 \/ p \in processing_files,
   failed |-> FailedBefore(p)]

\* the handler returns to the observer's dispatch loop
HandlerReturn(log) ==
  /\ h_pc' = "idle" /\ h_path' = NoPath /\ h_attempt' = 0 /\ h_size1' = 0
  /\ h_md5' = NoDigest /\ h_log' = log /\ h_samples' = <<>> /\ h_arrival' = NoArrival

\* _is_file_stable's default max_attempts
max_attempts == 3

\* on_modified / on_created -> _handle_file_change up to the end of the
\* 0.5 s settle sleep: the exclusion gate
HandleFileChange(p) ==
  /\ observer = "started" /\ h_pc = "idle"
  /\ n_events < MaxEvents
  /\ p \in paths
  /\ n_events' = n_events + 1
  /\ IF _should_skip_file(p)
       THEN /\ h_log' = "skip"
            /\ UNCHANGED <<h_pc, h_path, h_attempt, h_size1, h_md5, h_samples, h_arrival>>
       ELSE /\ h_pc' = "sample1" /\ h_path' = p /\ h_attempt' = 0
            /\ h_arrival' = Arrival(p)
            /\ UNCHANGED <<h_size1, h_md5, h_log, h_samples>>
  /\ UNCHANGED <<runVars, monVars, storeVars, fsVars, sharedVars, lifeVars, workerVars>>

\* Faulty variant of Sample1: a failed getsize is counted in failed_count
MutSample1CountsFailure ==
  /\ h_pc = "sample1"
  /\ IF content[h_path] = 0
       THEN /\ HandlerReturn("vanished")
            /\ stats' = [stats EXCEPT !["failed_count"] = @ + 1]
       ELSE /\ h_size1' = Size(content[h_path])
            /\ h_samples' = Append(h_samples, Size(content[h_path]))
            /\ h_pc' = "sample2"
            /\ UNCHANGED <<h_path, h_attempt, h_md5, h_log, stats, h_arrival>>
  /\ UNCHANGED <<upload_queue, unfinished_tasks, processing_files, uploaded_files>>
  /\ UNCHANGED <<n_events, runVars, monVars, storeVars, fsVars, lifeVars, workerVars>>

\* _is_file_stable: size1 = os.path.getsize(file_path)
Sample1 ==
  /\ h_pc = "sample1"
  /\ IF content[h_path] = 0
       THEN HandlerReturn("vanished")
       ELSE /\ h_size1' = Size(content[h_path])
            /\ h_samples' = Append(h_samples, Size(content[h_path]))
            /\ h_pc' = "sample2"
            /\ UNCHANGED <<h_path, h_attempt, h_md5, h_log, h_arrival>>
  /\ UNCHANGED <<n_events, runVars, monVars, storeVars, fsVars, sharedVars, lifeVars, workerVars>>

\* Faulty variant of Sample2: a pair that did not shrink is accepted as stable
MutSample2Grow ==
  /\ h_pc = "sample2"
  /\ IF content[h_path] = 0
       THEN HandlerReturn("vanished")
       ELSE IF h_size1 <= Size(content[h_path])
         THEN /\ h_pc' = "add"
              /\ h_samples' = Append(h_samples, Size(content[h_path]))
              /\ UNCHANGED <<h_path, h_attempt, h_size1, h_md5, h_log, h_arrival>>
         ELSE IF h_attempt + 1 < max_attempts
           THEN /\ h_attempt' = h_attempt + 1
                /\ h_pc' = "sample1"
                /\ h_samples' = Append(h_samples, Size(content[h_path]))
                /\ UNCHANGED <<h_path, h_size1, h_md5, h_log, h_arrival>>
           ELSE HandlerReturn("unstable")
  /\ UNCHANGED <<n_events, runVars, monVars, storeVars, fsVars, sharedVars, lifeVars, workerVars>>

\* Faulty variant of Sample2: the probe gives up one comparison late
MutSample2ExtraAttempt ==
  /\ h_pc = "sample2"
  /\ IF content[h_path] = 0
       THEN HandlerReturn("vanished")
       ELSE IF h_size1 = Size(content[h_path])
         THEN /\ h_pc' = "add"
              /\ h_samples' = Append(h_samples, Size(content[h_path]))
              /\ UNCHANGED <<h_path, h_attempt, h_size1, h_md5, h_log, h_arrival>>
         ELSE IF h_attempt < max_attempts
           THEN /\ h_attempt' = h_attempt + 1
                /\ h_pc' = "sample1"
                /\ h_samples' = Append(h_samples, Size(content[h_path]))
                /\ UNCHANGED <<h_path, h_size1, h_md5, h_log, h_arrival>>
           ELSE HandlerReturn("unstable")
  /\ UNCHANGED <<n_events, runVars, monVars, storeVars, fsVars, sharedVars, lifeVars, workerVars>>

\* _is_file_stable: after the 0.2 s sleep, size2 = os.path.getsize(file_path)
\* and the comparison; on the last unequal comparison the probe gives up
Sample2 ==
  /\ h_pc = "sample2"
  /\ IF content[h_path] = 0
       THEN HandlerReturn("vanished")
       ELSE IF h_size1 = Size(content[h_path])
         THEN /\ h_pc' = "add"
              /\ h_samples' = Append(h_samples, Size(content[h_path]))
              /\ UNCHANGED <<h_path, h_attempt, h_size1, h_md5, h_log, h_arrival>>
         ELSE IF h_attempt + 1 < max_attempts
           THEN /\ h_attempt' = h_attempt + 1
                /\ h_pc' = "sample1"
                /\ h_samples' = Append(h_samples, Size(content[h_path]))
                /\ UNCHANGED <<h_path, h_size1, h_md5, h_log, h_arrival>>
           ELSE HandlerReturn("unstable")
  /\ UNCHANGED <<n_events, runVars, monVars, storeVars, fsVars, sharedVars, lifeVars, workerVars>>

\* add_upload_task: the processing_files check
AddCheck ==
  /\ h_pc = "add"
  /\ IF h_path \in processing_files
       THEN HandlerReturn("in_flight")
       ELSE /\ h_pc' = "md5"
            /\ UNCHANGED <<h_path, h_attempt, h_size1, h_md5, h_log, h_samples, h_arrival>>
  /\ UNCHANGED <<n_events, runVars, monVars, storeVars, fsVars, sharedVars, lifeVars, workerVars>>

\* add_upload_task: current_md5 = self._calculate_file_md5(file_path); open()
\* raises when the file is gone, the handler logs the error and returns
AddMd5 ==
  /\ h_pc = "md5"
  /\ IF content[h_path] = 0
       THEN HandlerReturn("error")
       ELSE /\ h_md5' = MD5(content[h_path])
            /\ h_pc' = "put"
            /\ UNCHANGED <<h_path, h_attempt, h_size1, h_log, h_samples, h_arrival>>
  /\ UNCHANGED <<n_events, runVars, monVars, storeVars, fsVars, sharedVars, lifeVars, workerVars>>

\* Faulty variant of AddPut: the digest comparison is left out
MutAddPutAlways ==
  /\ h_pc = "put"
  /\ upload_queue' = Append(upload_queue, h_path)
  /\ unfinished_tasks' = unfinished_tasks + 1
  /\ HandlerReturn("queued")
  /\ UNCHANGED <<processing_files, uploaded_files, stats>>
  /\ UNCHANGED <<n_events, runVars, monVars, storeVars, fsVars, lifeVars, workerVars>>

\* Faulty variant of AddPut: a path that was handed to the uploader before
\* is never queued again
MutAddPutOnce ==
  /\ h_pc = "put"
  /\ IF uploaded_files[h_path] = h_md5 \/ invoked[h_path] > 0
       THEN /\ HandlerReturn("unchanged")
            /\ UNCHANGED <<upload_queue, unfinished_tasks>>
       ELSE /\ upload_queue' = Append(upload_queue, h_path)
            /\ unfinished_tasks' = unfinished_tasks + 1
            /\ HandlerReturn("queued")
  /\ UNCHANGED <<processing_files, uploaded_files, stats>>
  /\ UNCHANGED <<n_events, runVars, monVars, storeVars, fsVars, lifeVars, workerVars>>

\* add_upload_task: the comparison with uploaded_files and upload_queue.put
AddPut ==
  /\ h_pc = "put"
  /\ IF uploaded_files[h_path] = h_md5
       THEN /\ HandlerReturn("unchanged")
            /\ UNCHANGED <<upload_queue, unfinished_tasks>>
       ELSE /\ upload_queue' = Append(upload_queue, h_path)
            /\ unfinished_tasks' = unfinished_tasks + 1
            /\ HandlerReturn("queued")
  /\ UNCHANGED <<processing_files, uploaded_files, stats>>
  /\ UNCHANGED <<n_events, runVars, monVars, storeVars, fsVars, lifeVars, workerVars>>


\* ---------------------------------------------------------------- worker
\* _upload_worker: the loop test `while self.running`
WorkerLoop(w) ==
  /\ w_pc[w] = "loop"
  /\ w_pc' = [w_pc EXCEPT ![w] = IF running THEN "get" ELSE "exit"]
  /\ UNCHANGED <<w_path, w_tmp, w_success, w_md5, invoked>>
  /\ UNCHANGED <<runVars, monVars, storeVars, fsVars, sharedVars, lifeVars, handlerVars>>

\* Faulty variant of WorkerGet: get() without a timeout, blocking while the
\* queue is empty
MutWorkerGetBlocks(w) ==
  /\ w_pc[w] = "get"
  /\ upload_queue # <<>>
  /\ w_path' = [w_path EXCEPT ![w] = Head(upload_queue)]
  /\ upload_queue' = Tail(upload_queue)
  /\ w_pc' = [w_pc EXCEPT ![w] = "mark"]
  /\ UNCHANGED <<w_tmp, w_success, w_md5, invoked>>
  /\ UNCHANGED <<unfinished_tasks, processing_files, uploaded_files, stats>>
  /\ UNCHANGED <<runVars, monVars, storeVars, fsVars, lifeVars, handlerVars>>

\* file_path = self.upload_queue.get(timeout=1); Empty sends the worker back
\* to the loop test
WorkerGet(w) ==
  /\ w_pc[w] = "get"
  /\ IF upload_queue = <<>>
       THEN /\ w_pc' = [w_pc EXCEPT ![w] = "loop"]
            /\ UNCHANGED <<upload_queue, w_path>>
       ELSE /\ w_path' = [w_path EXCEPT ![w] = Head(upload_queue)]
            /\ upload_queue' = Tail(upload_queue)
            /\ w_pc' = [w_pc EXCEPT ![w] = "mark"]
  /\ UNCHANGED <<w_tmp, w_success, w_md5, invoked>>
  /\ UNCHANGED <<unfinished_tasks, processing_files, uploaded_files, stats>>
  /\ UNCHANGED <<runVars, monVars, storeVars, fsVars, lifeVars, handlerVars>>

\* the worker's locals are dead once it is back at the loop test
WorkerReset(w, pc) ==
  /\ w_pc' = [w_pc EXCEPT ![w] = pc]
  /\ w_path' = [w_path EXCEPT ![w] = NoPath]
  /\ w_tmp' = [w_tmp EXCEPT ![w] = 0]
  /\ w_success' = [w_success EXCEPT ![w] = FALSE]
  /\ w_md5' = [w_md5 EXCEPT ![w] = NoDigest]

\* self.processing_files.add(file_path); relative_path =
\* self._get_relative_path(file_path): a ValueError here is caught by the
\* outer `except Exception` (line 286), outside the try/finally
WorkerMark(w) ==
  /\ w_pc[w] = "mark"
  /\ processing_files' = processing_files \cup {w_path[w]}
  /\ IF RelativeToRaises(w_path[w])
       THEN WorkerReset(w, "loop")
       ELSE /\ w_pc' = [w_pc EXCEPT ![w] = "tp_read"]
            /\ UNCHANGED <<w_path, w_tmp, w_success, w_md5>>
  /\ UNCHANGED <<invoked, upload_queue, unfinished_tasks, uploaded_files, stats>>
  /\ UNCHANGED <<runVars, monVars, storeVars, fsVars, lifeVars, handlerVars>>

\* `self.stats[k] += 1` is a read of the counter followed by a write
CounterAt(pc) ==
  CASE pc \in {"tp_read", "tp_write"} -> "total_processed"
    [] pc \in {"sk_read", "sk_write"} -> "skipped_count"
    [] pc \in {"su_read", "su_write"} -> "success_count"
    [] pc \in {"fl_read", "fl_write"} -> "failed_count"

WriteAfter(pc) ==
  CASE pc = "tp_read" -> "tp_write"
    [] pc = "sk_read" -> "sk_write"
    [] pc = "su_read" -> "su_write"
    [] pc = "fl_read" -> "fl_write"

StatsRead(w) ==
  /\ w_pc[w] \in {"tp_read", "sk_read", "su_read", "fl_read"}
  /\ w_tmp' = [w_tmp EXCEPT ![w] = stats[CounterAt(w_pc[w])]]
  /\ w_pc' = [w_pc EXCEPT ![w] = WriteAfter(w_pc[w])]
  /\ UNCHANGED <<w_path, w_success, w_md5, invoked>>
  /\ UNCHANGED <<runVars, monVars, storeVars, fsVars, sharedVars, lifeVars, handlerVars>>

StatsWrite(w) ==
  /\ w_pc[w] \in {"tp_write", "sk_write", "su_write", "fl_write"}
  /\ stats' = [stats EXCEPT ![CounterAt(w_pc[w])] = w_tmp[w] + 1]
  /\ w_pc' = [w_pc EXCEPT ![w] = IF w_pc[w] = "tp_write" THEN "exists" ELSE "finally"]
  /\ UNCHANGED <<w_path, w_tmp, w_success, w_md5, invoked>>
  /\ UNCHANGED <<upload_queue, unfinished_tasks, processing_files, uploaded_files>>
  /\ UNCHANGED <<runVars, monVars, storeVars, fsVars, lifeVars, handlerVars>>

\* `if not os.path.exists(file_path)`: skipped, or the uploader is called
WorkerExists(w) ==
  /\ w_pc[w] = "exists"
  /\ IF content[w_path[w]] = 0
       THEN /\ w_pc' = [w_pc EXCEPT ![w] = "sk_read"]
            /\ UNCHANGED invoked
       ELSE /\ w_pc' = [w_pc EXCEPT ![w] = "upload"]
            /\ invoked' = [invoked EXCEPT ![w_path[w]] = @ + 1]
  /\ UNCHANGED <<w_path, w_tmp, w_success, w_md5>>
  /\ UNCHANGED <<runVars, monVars, storeVars, fsVars, sharedVars, lifeVars, handlerVars>>

\* the answers of the server to the GET of _check_file_exists and to the
\* POST of _upload_single_file
Probes == {"found", "absent", "net_error", "garbled"}
Responses == {"ok", "code_nonzero", "http_401", "http_error", "net_error", "garbled"}

\* DolphinSchedulerFileUploader._check_file_exists: True on a cache hit or a
\* listed resource of the same name and size; a RequestException (connection
\* error, raise_for_status) is caught and gives False; a body that is not
\* the expected JSON raises out of the function
_check_file_exists(probe) ==
  CASE probe = "found" -> "True"
    [] probe = "absent" -> "False"
    [] probe = "net_error" -> "False"
    [] probe = "garbled" -> "Exception"

\* the try block of _upload_single_file (lines 297-414): the value it
\* returns or the exception that leaves it
UploadBody(present, probe, resp) ==
  IF ~present THEN "FileNotFoundError"
  ELSE IF _check_file_exists(probe) # "False" THEN _check_file_exists(probe)
  ELSE CASE resp = "ok" -> "True"
         [] resp = "code_nonzero" -> "False"
         [] resp = "http_401" -> "False"
         [] resp = "http_error" -> "False"
         [] resp = "net_error" -> "Exception"
         [] resp = "garbled" -> "Exception"

\* Faulty variant of _upload_single_file: the catch-all handler is left out
MutUploadNoCatchAll(present, probe, resp) ==
  LET body == UploadBody(present, probe, resp)
  IN [raised |-> body = "Exception", success |-> body = "True"]

\* DolphinSchedulerFileUploader._upload_single_file: `except
\* FileNotFoundError` and `except Exception` (lines 416-423) turn every
\* exception of the body into (False, message)
_upload_single_file(present, probe, resp) ==
  LET body == UploadBody(present, probe, resp)
  IN [raised |-> FALSE, success |-> body = "True"]

\* Faulty variant of UploadReturn: the outcome is not routed by the flag
MutUploadReturnIgnoresFlag(w, probe, resp) ==
  /\ w_pc[w] = "upload"
  /\ w_success' = [w_success EXCEPT ![w] =
        _upload_single_file(content[w_path[w]] # 0, probe, resp).success]
  /\ w_pc' = [w_pc EXCEPT ![w] = "md5"]
  /\ UNCHANGED <<w_path, w_tmp, w_md5, invoked>>
  /\ UNCHANGED <<runVars, monVars, storeVars, fsVars, sharedVars, lifeVars, handlerVars>>

\* the cache key f"{file_name}_{file_size}_{file_md5}" of file p holding
\* content c (name, size and digest are functions of p and c)
CacheKey(p, c) == <<p, Size(c), MD5(c)>>

\* the resource listing of the store has an entry with the alias and the
\* size of file p (lines 264-267)
Listed(p) == remote[p] # 0 /\ Size(remote[p]) = Size(content[p])

\* the answers the store can give to the GET of _check_file_exists for p
ProbeAnswers(p) ==
  {"net_error", "garbled"} \cup (IF Listed(p) THEN {"found"} ELSE {"absent"})

\* success, message = self.uploader._upload_single_file(...): `if success`
\* goes on to the digest, `else` and `except Exception` (line 274) count a
\* failure.  Inside the call: a key found in existing_files_cache answers
\* the existence check without a request (lines 233-235); a listing match
\* adds the key (line 268); a POST answered 200 with code 0 has stored the
\* bytes read from the file and adds the key (lines 386-389)
UploadReturn(w, probe, resp) ==
  /\ w_pc[w] = "upload"
  /\ probe \in ProbeAnswers(w_path[w])
  /\ LET p == w_path[w]
         c == content[p]
         hit == c # 0 /\ CacheKey(p, c) \in existing_files_cache
         r == _upload_single_file(c # 0, IF hit THEN "found" ELSE probe, resp)
         stored == c # 0 /\ ~hit /\ _check_file_exists(probe) = "False" /\ resp = "ok"
         matched == c # 0 /\ ~hit /\ probe = "found"
     IN /\ w_success' = [w_success EXCEPT ![w] = ~r.raised /\ r.success]
        /\ w_pc' = [w_pc EXCEPT ![w] = IF ~r.raised /\ r.success THEN "md5" ELSE "fl_read"]
        /\ remote' = IF stored THEN [remote EXCEPT ![p] = c] ELSE remote
        /\ existing_files_cache' =
             IF stored \/ matched
               THEN existing_files_cache \cup {CacheKey(p, c)}
               ELSE existing_files_cache
  /\ UNCHANGED <<w_path, w_tmp, w_md5, invoked>>
  /\ UNCHANGED <<runVars, monVars, fsVars, sharedVars, lifeVars, handlerVars>>

\* `if success:` current_md5 = self._calculate_file_md5(file_path); open()
\* raises when the file is gone and `except Exception` counts a failure
WorkerMd5(w) ==
  /\ w_pc[w] = "md5"
  /\ IF content[w_path[w]] = 0
       THEN /\ w_pc' = [w_pc EXCEPT ![w] = "fl_read"]
            /\ UNCHANGED w_md5
       ELSE /\ w_md5' = [w_md5 EXCEPT ![w] = MD5(content[w_path[w]])]
            /\ w_pc' = [w_pc EXCEPT ![w] = "record"]
  /\ UNCHANGED <<w_path, w_tmp, w_success, invoked>>
  /\ UNCHANGED <<runVars, monVars, storeVars, fsVars, sharedVars, lifeVars, handlerVars>>

\* Faulty variant of WorkerRecord: the digest is not stored
MutRecordNothing(w) ==
  /\ w_pc[w] = "record"
  /\ w_pc' = [w_pc EXCEPT ![w] = "su_read"]
  /\ UNCHANGED <<w_path, w_tmp, w_success, w_md5, invoked>>
  /\ UNCHANGED <<upload_queue, unfinished_tasks, processing_files, uploaded_files, stats>>
  /\ UNCHANGED <<runVars, monVars, storeVars, fsVars, lifeVars, handlerVars>>

\* self.uploaded_files[file_path] = current_md5
WorkerRecord(w) ==
  /\ w_pc[w] = "record"
  /\ uploaded_files' = [uploaded_files EXCEPT ![w_path[w]] = w_md5[w]]
  /\ w_pc' = [w_pc EXCEPT ![w] = "su_read"]
  /\ UNCHANGED <<w_path, w_tmp, w_success, w_md5, invoked>>
  /\ UNCHANGED <<upload_queue, unfinished_tasks, processing_files, stats>>
  /\ UNCHANGED <<runVars, monVars, storeVars, fsVars, lifeVars, handlerVars>>

\* finally: self.processing_files.discard(file_path);
\* self.upload_queue.task_done()
WorkerFinally(w) ==
  /\ w_pc[w] = "finally"
  /\ processing_files' = processing_files \ {w_path[w]}
  /\ unfinished_tasks' = unfinished_tasks - 1
  /\ WorkerReset(w, "loop")
  /\ UNCHANGED <<invoked, upload_queue, uploaded_files, stats>>
  /\ UNCHANGED <<runVars, monVars, storeVars, fsVars, lifeVars, handlerVars>>

\* ---------------------------------------------------------------- supervisor
\* Faulty variant of Construct: the watch directory is not validated
MutConstructNoValidation(cfg_ok) ==
  /\ m_pc = "init"
  /\ m_pc' = IF cfg_ok THEN "new" ELSE "raised"
  /\ UNCHANGED <<running, observer>>
  /\ UNCHANGED <<runVars, monVars, storeVars, fsVars, sharedVars, handlerVars, workerVars>>

\* FileUploadListener.__init__: the watch directory is validated first
\* (FileNotFoundError when missing, ValueError when not a directory), then
\* the uploader is built (its exception is re-raised), then the queue, the
\* sets and the counters are created
Construct(cfg_ok) ==
  /\ m_pc = "init"
  /\ m_pc' = IF root = "dir" /\ cfg_ok THEN "new" ELSE "raised"
  /\ UNCHANGED <<running, observer>>
  /\ UNCHANGED <<runVars, monVars, storeVars, fsVars, sharedVars, handlerVars, workerVars>>

\* Faulty variant of StartSubmit: the executor accepts any worker count
MutStartSubmitNoCheck ==
  /\ m_pc = "new"
  /\ w_pc' = [w \in Workers |-> "loop"]
  /\ m_pc' = "start_flag"
  /\ UNCHANGED <<w_path, w_tmp, w_success, w_md5, invoked, running, observer>>
  /\ UNCHANGED <<runVars, monVars, storeVars, fsVars, sharedVars, handlerVars>>

\* start(): the executor is created and _upload_worker submitted
\* max_workers times; each submit starts a pool thread.
\* ThreadPoolExecutor(max_workers=n) raises ValueError when n <= 0: the
\* `except Exception` of start() logs it and start() returns False before
\* any other statement has run
StartSubmit ==
  /\ m_pc = "new"
  /\ IF max_workers <= 0
       THEN /\ m_pc' = "start_failed"
            /\ UNCHANGED w_pc
       ELSE /\ m_pc' = "start_flag"
            /\ w_pc' = [w \in Workers |-> "loop"]
  /\ UNCHANGED <<w_path, w_tmp, w_success, w_md5, invoked, running, observer>>
  /\ UNCHANGED <<runVars, monVars, storeVars, fsVars, sharedVars, handlerVars>>

\* start(): Observer(), observer.schedule(...), self.running = True,
\* stats['start_time']
StartFlag ==
  /\ m_pc = "start_flag"
  /\ observer' = "scheduled"
  /\ running' = TRUE
  /\ m_pc' = "start_observer"
  /\ UNCHANGED <<runVars, monVars, storeVars, fsVars, sharedVars, handlerVars, workerVars>>

\* start(): self.observer.start(); when it raises, start() logs and returns
\* False and run() returns False without calling stop()
StartObserver(ok) ==
  /\ m_pc = "start_observer"
  /\ observer' = IF ok THEN "started" ELSE "scheduled"
  /\ m_pc' = IF ok THEN "running" ELSE "start_failed"
  /\ UNCHANGED running
  /\ UNCHANGED <<runVars, monVars, storeVars, fsVars, sharedVars, handlerVars, workerVars>>

\* stop(): self.running = False.  stop() tests nothing before it acts: a
\* call on a service that was stopped before (run()'s `finally` after a
\* stop() made from elsewhere) runs the same statements again
StopFlag ==
  /\ m_pc \in {"running", "stopped"}
  /\ running' = FALSE
  /\ m_pc' = "stop_observer"
  /\ UNCHANGED observer
  /\ UNCHANGED <<runVars, monVars, storeVars, fsVars, sharedVars, handlerVars, workerVars>>

\* stop(): self.observer.stop(); self.observer.join(timeout=5): no further
\* event is dispatched; the join returns when the observer thread has ended
\* or after 5 s, whichever comes first
StopObserver ==
  /\ m_pc = "stop_observer"
  /\ observer' = "stopped"
  /\ m_pc' = "stop_pool"
  /\ UNCHANGED running
  /\ UNCHANGED <<runVars, monVars, storeVars, fsVars, sharedVars, handlerVars, workerVars>>

\* Faulty variant of StopPool: the shutdown waits for every worker to leave
\* its loop
MutStopPoolWaits ==
  /\ m_pc = "stop_pool"
  /\ \A w \in Workers : w_pc[w] \in {"off", "exit"}
  /\ m_pc' = "stopped"
  /\ UNCHANGED <<running, observer>>
  /\ UNCHANGED <<runVars, monVars, storeVars, fsVars, sharedVars, handlerVars, workerVars>>

\* stop(): self.upload_executor.shutdown(wait=True, timeout=10).
\* ThreadPoolExecutor.shutdown takes no `timeout` argument: the call raises
\* TypeError before it waits for any worker, `except Exception` logs it and
\* stop() returns (and _print_stats is not reached)
StopPool ==
  /\ m_pc = "stop_pool"
  /\ m_pc' = "stopped"
  /\ UNCHANGED <<running, observer>>
  /\ UNCHANGED <<runVars, monVars, storeVars, fsVars, sharedVars, handlerVars, workerVars>>

\* run(): what it has returned, "-" while it has not.  False when start()
\* returned False (stop() is not called); True after the stop() of its
\* `finally` has returned.
RunReturn ==
  CASE m_pc = "start_failed" -> "False"
    [] m_pc = "stopped" -> "True"
    [] OTHER -> "-"

\* Faulty variant of MainReturn: a run that counted a failed task exits 1
MutMainReturnCountsFailures ==
  CASE m_pc = "raised" -> {1}
    [] RunReturn = "False" -> {1}
    [] RunReturn = "True" -> IF stats["failed_count"] > 0 THEN {1} ELSE {0}
    [] OTHER -> {}

\* main(): the exit code it has returned, as a set that is empty while
\* main() has not returned.  1 when the directory argument is invalid or
\* the constructor raised (caught by `except Exception`), otherwise
\* `0 if success else 1` on the value of run()
MainReturn ==
  CASE m_pc = "raised" -> {1}
    [] RunReturn = "False" -> {1}
    [] RunReturn = "True" -> {0}
    [] OTHER -> {}

\* ---------------------------------------------------------------- polling monitor
\* the frame of the monitor's steps: the listener service is not running
listenerVars == <<max_workers, storeVars, sharedVars, lifeVars, handlerVars, workerVars>>

\* start_monitoring up to the loop: self.running = True, then
\* check_directory; a missing directory is logged and the method returns
\* (a bare `return`: None)
StartMonitoring ==
  /\ mon_pc = "new"
  /\ mon_running' = TRUE
  /\ IF root = "missing"
       THEN mon_pc' = "returned" /\ mon_result' = "None"
       ELSE mon_pc' = "check" /\ UNCHANGED mon_result
  /\ UNCHANGED <<check_interval, processed_files, new_files, mon_uploads, n_checks>>
  /\ UNCHANGED <<root, paths, fsVars, listenerVars>>

\* the files watch_dir.rglob('*') yields that are not in processed_files
Candidates ==
  IF root = "dir" THEN {p \in paths : content[p] # 0} \ processed_files ELSE {}

\* Faulty variant of CheckNewFiles: the files found are not marked processed
MutCheckNoMark ==
  /\ mon_pc = "check"
  /\ n_checks < MaxChecks
  /\ IF mon_running
       THEN /\ \E found \in SUBSET Candidates : new_files' = found
            /\ n_checks' = n_checks + 1
            /\ mon_pc' = "upload"
            /\ UNCHANGED <<mon_result, processed_files>>
       ELSE /\ mon_pc' = "returned" /\ mon_result' = "None"
            /\ UNCHANGED <<new_files, processed_files, n_checks>>
  /\ UNCHANGED <<check_interval, mon_running, mon_uploads>>
  /\ UNCHANGED <<root, paths, fsVars, listenerVars>>

\* `while self.running:` new_files = self._check_new_files(): every file
\* found that is not in processed_files is appended to the list and added
\* to processed_files at once (lines 221-226); an exception during the walk
\* is logged and the files found so far are returned (lines 228-231)
CheckNewFiles ==
  /\ mon_pc = "check"
  /\ n_checks < MaxChecks
  /\ IF mon_running
       THEN /\ \E found \in SUBSET Candidates :
                 /\ new_files' = found
                 /\ processed_files' = processed_files \cup found
            /\ n_checks' = n_checks + 1
            /\ mon_pc' = "upload"
            /\ UNCHANGED mon_result
       ELSE /\ mon_pc' = "returned" /\ mon_result' = "None"
            /\ UNCHANGED <<new_files, processed_files, n_checks>>
  /\ UNCHANGED <<check_interval, mon_running, mon_uploads>>
  /\ UNCHANGED <<root, paths, fsVars, listenerVars>>

\* `for file_path, relative_path in new_files:` success =
\* self._activate_venv_and_upload(...), which returns True or False and
\* raises no Exception; the result is only logged
MonUpload(p, ok) ==
  /\ mon_pc = "upload"
  /\ p \in new_files
  /\ mon_uploads' = [mon_uploads EXCEPT ![p] = Append(@, ok)]
  /\ new_files' = new_files \ {p}
  /\ UNCHANGED <<check_interval, mon_pc, mon_running, processed_files, mon_result, n_checks>>
  /\ UNCHANGED <<root, paths, fsVars, listenerVars>>

\* the list is exhausted: time.sleep(check_interval), then the loop test
MonSleep ==
  /\ mon_pc = "upload"
  /\ new_files = {}
  /\ mon_pc' = "check"
  /\ UNCHANGED <<check_interval, mon_running, processed_files, new_files,
                 mon_uploads, mon_result, n_checks>>
  /\ UNCHANGED <<root, paths, fsVars, listenerVars>>

\* KeyboardInterrupt inside the loop: self.running = False and the method
\* falls off its end (None)
MonInterrupt ==
  /\ mon_pc \in {"check", "upload"}
  /\ mon_running' = FALSE
  /\ mon_pc' = "returned" /\ mon_result' = "None"
  /\ UNCHANGED <<check_interval, processed_files, new_files, mon_uploads, n_checks>>
  /\ UNCHANGED <<root, paths, fsVars, listenerVars>>

\* ---------------------------------------------------------------- system
Next ==
  \/ \E p \in paths, c \in 0..MaxContent : FsWrite(p, c)
  \/ \E p \in paths : HandleFileChange(p)
  \/ Sample1 \/ Sample2 \/ AddCheck \/ AddMd5 \/ AddPut
  \/ \E w \in Workers :
       \/ WorkerLoop(w) \/ WorkerGet(w) \/ WorkerMark(w)
       \/ StatsRead(w) \/ StatsWrite(w) \/ WorkerExists(w)
       \/ \E probe \in Probes, resp \in Responses : UploadReturn(w, probe, resp)
       \/ WorkerMd5(w) \/ WorkerRecord(w) \/ WorkerFinally(w)
  \/ StartSubmit \/ StartFlag
  \/ \E ok \in BOOLEAN : StartObserver(ok)
  \/ StopFlag \/ StopObserver \/ StopPool

Spec == Init /\ [][Next]_vars

\* The dispatcher alone: the supervisor starts the service, the observer
\* thread handles events for files of every exclusion class while the files
\* change freely; the pool threads are not scheduled.
InitHandler ==
  /\ root = "dir"
  /\ paths = FilterPaths
  /\ max_workers = 1
  /\ content = [p \in paths |-> 1]
  /\ InitListener

NextHandler ==
  \/ \E p \in paths, c \in 0..MaxContent : FsChange(p, c)
  \/ \E p \in paths : HandleFileChange(p)
  \/ Sample1 \/ Sample2 \/ AddCheck \/ AddMd5 \/ AddPut
  \/ StartSubmit \/ StartFlag
  \/ \E ok \in BOOLEAN : StartObserver(ok)

\* The service over files that all lie textually under the watched directory
InitTree ==
  /\ root = "dir"
  /\ paths = {"A", "B", "T1"}
  /\ max_workers = MaxWorkers
  /\ content = [p \in paths |-> 1]
  /\ InitListener

SpecTree == InitTree /\ [][Next]_vars

\* The service run with one worker thread (--workers 1)
InitSolo ==
  /\ root = "dir"
  /\ paths = ServicePaths
  /\ max_workers = 1
  /\ content = [p \in paths |-> 1]
  /\ InitListener

SpecSolo == InitSolo /\ [][Next]_vars

\* The whole service, one worker, over files of every exclusion class and
\* one kept file
InitFilter ==
  /\ root = "dir"
  /\ paths = FilterPaths \ {"E"}
  /\ max_workers = 1
  /\ content = [p \in paths |-> 1]
  /\ InitListener

SpecFilter == InitFilter /\ [][Next]_vars

SpecHandler == InitHandler /\ [][NextHandler]_vars

\* The service from the call of its constructor, for every kind of watch
\* directory argument
RootKinds == {"dir", "file", "missing"}

InitConstruct ==
  /\ root \in RootKinds
  /\ paths = {"A"}
  /\ max_workers = 1
  /\ content = [p \in paths |-> 1]
  /\ InitFields /\ m_pc = "init"

NextConstruct ==
  \/ \E cfg_ok \in BOOLEAN : Construct(cfg_ok)
  \/ Next

SpecConstruct == InitConstruct /\ [][NextConstruct]_vars

\* The program from main(), for every kind of directory argument and of
\* --workers argument
WorkerCounts == {-1, 0, 1}

InitConfig ==
  /\ root \in RootKinds
  /\ paths = {"A"}
  /\ max_workers \in WorkerCounts
  /\ content = [p \in paths |-> 1]
  /\ InitFields /\ m_pc = "init"

SpecConfig == InitConfig /\ [][NextConstruct]_vars

\* The service watching one file, with one worker
InitOne ==
  /\ root = "dir"
  /\ paths = {"A"}
  /\ max_workers = 1
  /\ content = [p \in paths |-> 1]
  /\ InitListener

\* That service with the scheduling that the code's threads
\* have: the observer thread runs a handler to its return and the thread
\* that called stop() runs it to its return.  Nothing is assumed of the
\* workers (an uploader call may never return) nor of the environment.
Fairness ==
  /\ WF_vars(Sample1) /\ WF_vars(Sample2)
  /\ WF_vars(AddCheck) /\ WF_vars(AddMd5) /\ WF_vars(AddPut)
  /\ WF_vars(StopObserver) /\ WF_vars(StopPool)

SpecLive == InitOne /\ [][Next]_vars /\ Fairness

\* one statement of pool thread w in _upload_worker
WorkerStep(w) ==
  \/ WorkerLoop(w) \/ WorkerGet(w) \/ WorkerMark(w)
  \/ StatsRead(w) \/ StatsWrite(w) \/ WorkerExists(w)
  \/ \E probe \in Probes, resp \in Responses : UploadReturn(w, probe, resp)
  \/ WorkerMd5(w) \/ WorkerRecord(w) \/ WorkerFinally(w)

\* The pool thread keeps being scheduled and every call of the uploader
\* returns; the thread that called stop() runs it to its return
WorkerFairness ==
  /\ \A w \in {1} : WF_vars(WorkerStep(w))
  /\ WF_vars(StopObserver) /\ WF_vars(StopPool)

\* The service watching one file, with one worker, under that scheduling
SpecCancel == InitOne /\ [][Next]_vars /\ WorkerFairness

\* The dispatcher alone, with the observer thread running every probe to
\* its return (each time.sleep and each os.path.getsize returns)
ProbeFairness == WF_vars(Sample1) /\ WF_vars(Sample2)

SpecProbe == InitHandler /\ [][NextHandler]_vars /\ ProbeFairness

\* The polling monitor (file_monitor_final.py): --interval's default and the
\* 0 that --test-upload passes
Intervals == {0, 5}

InitMonitor ==
  /\ root \in RootKinds
  /\ paths = {"A", "B"}
  /\ max_workers = 1
  /\ content = [p \in paths |-> IF p = "A" THEN 1 ELSE 0]
  /\ InitListenerFields /\ EmptyStore /\ m_pc = "new"
  /\ check_interval \in Intervals
  /\ InitMonitorFields

NextMonitor ==
  \/ \E p \in paths, c \in 0..MaxContent : FsWrite(p, c)
  \/ StartMonitoring
  \/ CheckNewFiles
  \/ \E p \in paths, ok \in BOOLEAN : MonUpload(p, ok)
  \/ MonSleep
  \/ MonInterrupt

SpecMonitor == InitMonitor /\ [][NextMonitor]_vars

\* The service with one worker watching one file, started when the remote
\* store holds no resource of the file's name or holds one, put there by
\* someone else, that has the size of the file and another content
ForeignContent == 3

InitStore ==
  /\ root = "dir"
  /\ paths = {"A"}
  /\ max_workers = 1
  /\ content = [p \in paths |-> 1]
  /\ remote \in [paths -> {0, ForeignContent}]
  /\ InitListenerFields /\ m_pc = "new"
  /\ check_interval = 5 /\ InitMonitorFields

SpecStore == InitStore /\ [][Next]_vars

\* ================================================================ claims
StatsBalanced ==
  stats["total_processed"]
    = stats["success_count"] + stats["failed_count"] + stats["skipped_count"]
\* the queue is drained and no worker is in the middle of a task
Quiescent == upload_queue = <<>> /\ \A w \in Workers : w_path[w] = NoPath

\* C1 (mutual exclusion): for every path, the tasks for it in upload_queue
\* plus those held by workers number at most one.
C1_MutualExclusion == \A p \in paths : TasksFor(p) <= 1

\* C2 (idempotence): when add_upload_task compares the digest of the file's
\* current content with the digest recorded by the last successful upload
\* and they are equal, the event is discarded: nothing is enqueued and the
\* uploader is not invoked.
C2_Idempotence ==
  [][ ( /\ h_pc = "put" /\ h_pc' # "put"
        /\ h_md5 = MD5(content[h_path])
        /\ uploaded_files[h_path] = MD5(content[h_path]) )
      => ( /\ upload_queue' = upload_queue
           /\ unfinished_tasks' = unfinished_tasks
           /\ invoked' = invoked
           /\ h_log' = "unchanged" ) ]_vars

\* C2 witness: a file was uploaded once, its digest recorded, and a later
\* event for the same bytes was discarded as unchanged.
C2_Witness ==
  /\ h_log = "unchanged" /\ h_pc = "idle"
  /\ upload_queue = <<>>
  /\ invoked["A"] = 1 /\ uploaded_files["A"] = MD5(content["A"])
  /\ n_events = 2

\* C3 (dedup cache written on success only): every change of uploaded_files
\* is the write of a worker at line 267, for the path of its task, after the
\* uploader returned ok=true for that task; no other step changes it.
C3_DedupWrittenOnSuccess ==
  [][ uploaded_files' # uploaded_files
      => \E w \in Workers :
           /\ w_pc[w] = "record" /\ w_pc'[w] = "su_read"
           /\ w_success[w]
           /\ invoked[w_path[w]] > 0
           /\ uploaded_files' = [uploaded_files EXCEPT ![w_path[w]] = w_md5[w]]
           /\ h_pc' = h_pc /\ upload_queue' = upload_queue ]_vars

\* C3 witness: a digest was recorded while another task had failed.
C3_Witness ==
  /\ \E p \in paths : uploaded_files[p] # NoDigest
  /\ stats["failed_count"] > 0

\* C4 (in-flight coverage): every path with a task queued or held by a
\* worker is a member of processing_files.
C4_InFlightCoverage == \A p \in paths : TasksFor(p) > 0 => p \in processing_files

\* C5 (guaranteed release): no path stays in processing_files once no worker
\* is processing a task for it.
C5_GuaranteedRelease == \A p \in processing_files : HeldBy(p) # {}

\* C6 (stats equation): whenever the queue is empty and no worker is in the
\* middle of a task, total_processed = success + failed + skipped.
C6_StatsEquation == Quiescent => StatsBalanced

\* C7 (drain invariant): once stop() has returned, processing_files is empty
\* and total_processed = success + failed + skipped.
C7_DrainInvariant == m_pc = "stopped" => (processing_files = {} /\ StatsBalanced)

\* The four exclusion rules as C8 states them, on the text of the path.
RuleTempFile(p) ==
  \E pat \in temp_patterns :
    StartsWith(FilePath(p).name, pat) \/ EndsWith(FilePath(p).name, pat)
RuleHiddenFile(p) ==
  FilePath(p).name[1] = "." /\ FilePath(p).name \notin hidden_allowed
RuleLogFile(p) == EndsWith(FilePath(p).name, <<".", "l", "o", "g">>)
RuleExcludedDirectory(p) ==
  \E d \in skip_dirs : \E i \in DOMAIN FilePath(p).dir : FilePath(p).dir[i] = d
MatchesExclusionRule(p) ==
  RuleTempFile(p) \/ RuleHiddenFile(p) \/ RuleLogFile(p) \/ RuleExcludedDirectory(p)
ExcludedByRule == {p \in AllPaths : MatchesExclusionRule(p)}

C9_NoChangeWhenStable ==
  h_pc = "add" => \A i \in 1..(Len(h_samples) - 1) : h_samples[i] = h_samples[i + 1]

\* C9 amended: a path is classified stable only by a comparison whose two
\* samples are equal; every earlier comparison of the probe was unequal and
\* there are at most max_attempts comparisons, so a path whose size differs
\* within every comparison is never classified stable.
C9_StableOnlyOnEqualPair ==
  h_pc = "add"
    => /\ Len(h_samples) \in {2 * k : k \in 1..max_attempts}
       /\ h_samples[Len(h_samples) - 1] = h_samples[Len(h_samples)]
       /\ \A k \in 1..(Len(h_samples) \div 2 - 1) : h_samples[2 * k - 1] # h_samples[2 * k]
       /\ h_attempt = Len(h_samples) \div 2 - 1

\* C9 witness: the probe gave up after max_attempts unequal comparisons.
C9_Witness == h_log = "unstable" /\ h_pc = "idle"

\* C10 (vanished file): when a size sample finds the file gone, the handler
\* drops the event: no task is queued, no counter changes and
\* processing_files gains nothing.
C10_VanishedFile ==
  [][ ( /\ h_pc \in {"sample1", "sample2"} /\ h_pc' # h_pc
        /\ content[h_path] = 0 )
      => ( /\ h_pc' = "idle" /\ h_log' = "vanished"
           /\ upload_queue' = upload_queue
           /\ unfinished_tasks' = unfinished_tasks
           /\ stats' = stats
           /\ processing_files' = processing_files ) ]_vars

\* C10 witness: the file of the event was deleted during the probe and the
\* handler returned without a task.
C10_Witness ==
  /\ h_log = "vanished" /\ h_pc = "idle"
  /\ n_events = 1 /\ upload_queue = <<>> /\ processing_files = {}
  /\ stats["failed_count"] = 0

\* Scenario A: the run has seen the one event of the created file and
\* nothing has written to the watched files since
ScenarioA == n_events = 1 /\ n_writes = 0

C12_OneOutcomeEach ==
  (Quiescent /\ invoked["A"] = 1 /\ invoked["B"] = 1)
    => /\ stats["success_count"] + stats["failed_count"] + stats["skipped_count"] = 2
       /\ stats["total_processed"] = 2

\* C13 (upload failure is non-fatal): a worker whose uploader call returned
\* ok=false goes through the failure branch: failed_count is incremented
\* once, success_count and uploaded_files stay as they are, the path is
\* released, and the worker is back at its loop test and, while the service
\* runs, at the dequeue.
C13_FailureNonFatal ==
  [][ \A w \in Workers :
        /\ (w_pc[w] = "upload" /\ w_pc'[w] # "upload" /\ ~w_success'[w])
             => /\ w_pc'[w] = "fl_read"
                /\ stats' = stats /\ uploaded_files' = uploaded_files
        /\ (w_pc[w] = "fl_read" /\ w_pc'[w] # "fl_read")
             => /\ w_pc'[w] = "fl_write"
                /\ stats' = stats /\ uploaded_files' = uploaded_files
        /\ (w_pc[w] = "fl_write" /\ w_pc'[w] # "fl_write")
             => /\ w_pc'[w] = "finally"
                /\ stats' = [stats EXCEPT !["failed_count"] = @ + 1]
                /\ uploaded_files' = uploaded_files
        /\ (w_pc[w] = "finally" /\ w_pc'[w] # "finally")
             => /\ w_pc'[w] = "loop"
                /\ w_path[w] \notin processing_files'
                /\ unfinished_tasks' = unfinished_tasks - 1
        /\ (w_pc[w] = "loop" /\ w_pc'[w] # "loop" /\ running)
             => w_pc'[w] = "get" ]_vars

\* C14 as stated (retry after failure): an event for p that arrived after an
\* upload of p had failed and while p was not in flight, and that has
\* passed exclusion and stability, ends with a new task for p in the queue.
C14_RetryAfterFailure ==
  [][ ( /\ h_pc \in {"add", "md5", "put"} /\ h_pc' = "idle"
        /\ h_arrival.failed /\ ~h_arrival.in_flight )
      => ( /\ h_log' = "queued"
           /\ upload_queue' = Append(upload_queue, h_path) ) ]_vars

\* C14 amended: the failure branch writes nothing to uploaded_files, and an
\* event for p that arrived after an upload of p had failed and while p was
\* not in flight, and whose digest was computed, creates a new task unless
\* that digest equals the one recorded for p by a successful upload.
C14_RetryUnlessRecorded ==
  [][ /\ \A w \in Workers :
           (w_pc[w] \in {"fl_read", "fl_write"} /\ w_pc'[w] # w_pc[w])
             => uploaded_files' = uploaded_files
      /\ (h_pc = "put" /\ h_pc' # "put" /\ h_arrival.failed /\ ~h_arrival.in_flight)
           => IF h_md5 = uploaded_files[h_path]
                THEN /\ h_log' = "unchanged"
                     /\ upload_queue' = upload_queue
                ELSE /\ h_log' = "queued"
                     /\ upload_queue' = Append(upload_queue, h_path)
                     /\ unfinished_tasks' = unfinished_tasks + 1 ]_vars

\* C14 witness: the upload of A failed, nothing was written to the file
\* since, and the next event for A has queued a new task.
C14_Witness ==
  /\ h_pc = "idle" /\ h_log = "queued" /\ upload_queue = <<"A">>
  /\ invoked["A"] = 1 /\ stats["failed_count"] = 1
  /\ n_events = 2 /\ n_writes = 0

\* the inputs for which the upload does not take place: the file is missing,
\* or the resource is not already there and the POST does not answer 200
\* with result code 0 (network error, HTTP error status, non-zero result
\* code, malformed response), or the listing cannot be read
UploadFails(present, probe, resp) ==
  \/ ~present
  \/ probe = "garbled"
  \/ probe # "found" /\ resp # "ok"

\* C15 (the uploader reports, never raises): for every file state and every
\* answer of the server _upload_single_file returns a value, never an
\* exception, and the value is (False, message) for every failure; the worker
\* that called it proceeds on that value.
C15_UploaderNeverRaises ==
  /\ \A present \in BOOLEAN, probe \in Probes, resp \in Responses :
       LET r == _upload_single_file(present, probe, resp)
       IN /\ ~r.raised
          /\ r.success = ~UploadFails(present, probe, resp)
  /\ \A w \in Workers :
       /\ w_pc[w] \in {"md5", "record", "su_read", "su_write"} => w_success[w]
       /\ w_success[w] => invoked[w_path[w]] > 0

\* C15 witness: a worker has got (False, message) for a file that is still
\* there (the request failed) and is counting the failure.
C15_Witness ==
  \E w \in Workers :
    /\ w_pc[w] = "fl_read" /\ ~w_success[w]
    /\ content[w_path[w]] # 0 /\ n_writes = 0

\* C16 (stop is idempotent): once stop() has returned, a further call of
\* stop() is a no-op: the service stays Stopped and the observer stop/join
\* and the pool shutdown are not gone through again.
C16_StopIdempotent == [][m_pc = "stopped" => m_pc' = "stopped"]_vars

\* C17 (final stats on shutdown): stop() returns only from the emission of
\* the final statistics, which follows the shutdown of the worker pool.
C17_FinalStats ==
  [][(m_pc # "stopped" /\ m_pc' = "stopped") => m_pc = "print_stats"]_vars

\* C18 (bounded shutdown): a stop() that has been called returns, whatever
\* the workers do: a worker may stay inside an uploader call for ever and
\* tasks may remain queued.
C18_BoundedShutdown == (m_pc \in {"stop_observer", "stop_pool"}) ~> (m_pc = "stopped")

\* C18 witness: stop() has returned while a worker is inside an uploader
\* call and a task is still queued.
C18_Witness ==
  /\ m_pc = "stopped"
  /\ \E w \in Workers : w_pc[w] = "upload"
  /\ upload_queue # <<>>

\* C19 (watcher start failure aborts to Stopped): when observer.start() has
\* failed and start() has returned False, the running flag is false, so that
\* no spawned worker keeps running.
C19_StartFailureAborts == m_pc = "start_failed" => ~running

\* C20 (fail-fast root validation): when the watch directory argument does
\* not name an existing directory, the constructor raises and nothing of the
\* service comes to exist: the supervisor is before or at the raise, the
\* running flag is false, there is no observer, no worker, no task and no
\* uploader call.
C20_FailFastRoot ==
  root # "dir"
    => /\ m_pc \in {"init", "raised"}
       /\ ~running /\ observer = "none"
       /\ \A w \in Workers : w_pc[w] = "off"
       /\ upload_queue = <<>> /\ unfinished_tasks = 0 /\ processing_files = {}
       /\ \A p \in paths : invoked[p] = 0
       /\ h_pc = "idle" /\ n_events = 0

\* C20 witness: the constructor has raised for a watch root that is a file.
C20_Witness == root = "file" /\ m_pc = "raised"

\* C21 (invalid worker count): a service given max_workers <= 0 never sets
\* the running flag, never creates, schedules or starts the observer and
\* never starts a worker; its start() ends in failure and main() then
\* returns 1.
C21_InvalidWorkerCount ==
  max_workers <= 0 =>
    /\ ~running
    /\ observer = "none"
    /\ m_pc \in {"init", "raised", "new", "start_failed"}
    /\ upload_queue = <<>>
    /\ (m_pc \in {"raised", "start_failed"} => MainReturn = {1})

\* C21 witness: start() has failed on a worker count of zero of an
\* otherwise valid configuration.
C21_Witness ==
  /\ max_workers = 0 /\ root = "dir"
  /\ m_pc = "start_failed" /\ MainReturn = {1} /\ ~running

\* C22 (no stall on a stability check): whenever the settle delay or the
\* size sampling for a path is in progress on a started observer (and the
\* environment has a notification left to deliver), a notification for a
\* different path can be taken up by _handle_file_change.
C22_ProbeDoesNotStallDelivery ==
  ( /\ observer = "started"
    /\ h_pc \in {"sample1", "sample2"}
    /\ n_events < MaxEvents )
  => \E q \in paths \ {h_path} : ENABLED HandleFileChange(q)

\* C23 (exit code): main() returns 1 only when the constructor raised or
\* start() returned False; a step that counts a failed task changes neither
\* the supervisor's position, the running flag, the observer nor the exit
\* code, and a service that ran and was stopped exits 0 whatever
\* failed_count is.
C23_ExitCodeOnlyStartup ==
  /\ [](MainReturn = {1} => m_pc \in {"raised", "start_failed"})
  /\ [](m_pc = "stopped" => MainReturn = {0})
  /\ [][ stats'["failed_count"] # stats["failed_count"]
         => ( /\ m_pc' = m_pc /\ running' = running /\ observer' = observer
              /\ MainReturn' = MainReturn ) ]_vars

\* C23 witness: the service ran, counted a failed upload, was stopped and
\* main() returns 0.
C23_Witness ==
  /\ m_pc = "stopped" /\ stats["failed_count"] > 0
  /\ stats["success_count"] = 0
  /\ MainReturn = {0}

\* C24 (long-lived workers): while start() has returned True and stop() has
\* not been called, no worker has left its `while self.running` loop.
C24_WorkersLongLived ==
  m_pc = "running" => \A w \in Workers : w_pc[w] # "exit"

\* C25 (cooperative cancellation): once stop() has cleared the running
\* flag, and provided every worker keeps running and every uploader call
\* returns, eventually every worker has left _upload_worker.
C25_CooperativeCancellation ==
  (m_pc \in {"stop_observer", "stop_pool", "stopped"} /\ ~running)
    ~> (\A w \in Workers : w_pc[w] = "exit")

\* C25 witness: the service was stopped, a task was processed and every
\* worker has left the loop.
C25_Witness ==
  /\ m_pc = "stopped" /\ ~running
  /\ \A w \in Workers : w_pc[w] = "exit"
  /\ stats["total_processed"] > 0

\* C26 (drop while in flight): while a task for path p is queued or held
\* by a worker, no step puts another task for p on upload_queue.
C26_DropWhileInFlight ==
  [][ \A p \in paths :
        TasksFor(p) > 0 => QueueCount(p)' <= QueueCount(p) ]_vars

\* C27 (missing file at dequeue): a worker that finds the file of its task
\* absent at the existence test goes through the skip branch: the uploader
\* is not invoked, uploaded_files and failed_count are not written,
\* skipped_count is incremented by one, the path is released and the task
\* marked done in the finally, and the worker is back at its loop test.
C27_MissingFileSkipped ==
  [][ \A w \in Workers :
        /\ (w_pc[w] = "exists" /\ w_pc'[w] # "exists" /\ content[w_path[w]] = 0)
             => /\ w_pc'[w] = "sk_read"
                /\ invoked' = invoked /\ stats' = stats
                /\ uploaded_files' = uploaded_files
        /\ (w_pc[w] = "sk_read" /\ w_pc'[w] # "sk_read")
             => /\ w_pc'[w] = "sk_write"
                /\ invoked' = invoked /\ stats' = stats
                /\ uploaded_files' = uploaded_files
        /\ (w_pc[w] = "sk_write" /\ w_pc'[w] # "sk_write")
             => /\ w_pc'[w] = "finally"
                /\ stats' = [stats EXCEPT !["skipped_count"] = @ + 1]
                /\ invoked' = invoked /\ uploaded_files' = uploaded_files
        /\ (w_pc[w] = "finally" /\ w_pc'[w] # "finally")
             => /\ w_pc'[w] = "loop"
                /\ w_path[w] \notin processing_files'
                /\ unfinished_tasks' = unfinished_tasks - 1 ]_vars

\* C28 (per-task accounting): whenever the queue is empty and no worker
\* holds a task, every task that was put on the queue has been marked done
\* (the queue's count of unfinished tasks is zero).
C28_AllTasksMarkedDone == Quiescent => unfinished_tasks = 0

\* C29 (success path): a worker for whose task the uploader has returned
\* ok=true never enters the failure branch, and when it reaches the finally
\* a digest is recorded for the path of the task.
C29_SuccessRecorded ==
  \A w \in Workers :
    w_success[w] =>
      /\ w_pc[w] \notin {"fl_read", "fl_write"}
      /\ (w_pc[w] = "finally" => uploaded_files[w_path[w]] # NoDigest)

\* C30 (no lost updates): every `self.stats[k] += 1` a worker completes
\* leaves counter k one higher than it was just before the write.
C30_NoLostUpdates ==
  [][ \A w \in Workers :
        (w_pc[w] \in {"tp_write", "sk_write", "su_write", "fl_write"}
           /\ w_pc'[w] # w_pc[w])
        => stats'[CounterAt(w_pc[w])] = stats[CounterAt(w_pc[w])] + 1 ]_vars

\* the characters of the excluded directory names
skip_dir_names ==
  { <<"_", "_", "p", "y", "c", "a", "c", "h", "e", "_", "_">>,
    <<".", "g", "i", "t">>, <<".", "s", "v", "n">>,
    <<"n", "o", "d", "e", "_", "m", "o", "d", "u", "l", "e", "s">> }

\* Rule (4) as C31 states it: any segment of the path, the last one
\* included, equals an excluded directory name.
RuleAnySegment(p) == RuleExcludedDirectory(p) \/ FilePath(p).name \in skip_dir_names

\* C31 (exclusion predicate): the handler goes on to the settle delay and
\* the stability probe only for a path that matches none of the four rules,
\* rule (4) taken over every segment of the path; a path that matches one
\* of them is skipped at the gate.
C31_ExclusionPredicate ==
  h_path # NoPath
    => ~(RuleTempFile(h_path) \/ RuleHiddenFile(h_path)
          \/ RuleLogFile(h_path) \/ RuleAnySegment(h_path))

\* the comparisons the running probe has completed are all unequal
EarlierUnequal ==
  \A k \in 1..(Len(h_samples) \div 2) : h_samples[2 * k - 1] # h_samples[2 * k]

\* C32 (prober algorithm): a probe makes at most max_attempts comparisons;
\* a comparison with equal samples ends it as stable, at once; it ends as
\* unstable, with no task queued and no counter changed, exactly when the
\* comparison that ends it is the max_attempts-th and all of them were
\* unequal; and every probe ends.
C32_ProberAlgorithm ==
  /\ [](Len(h_samples) <= 2 * max_attempts /\ h_attempt < max_attempts)
  /\ [][ (h_pc = "sample2" /\ h_pc' # "sample2" /\ content[h_path] # 0)
         => /\ Len(h_samples) = 2 * h_attempt + 1
            /\ EarlierUnequal
            /\ (h_size1 = Size(content[h_path])) <=> (h_pc' = "add")
            /\ (h_size1 # Size(content[h_path]) /\ h_attempt + 1 = max_attempts)
                 <=> (h_pc' = "idle" /\ h_log' = "unstable")
            /\ h_pc' = "idle"
                 => /\ upload_queue' = upload_queue /\ stats' = stats
                    /\ processing_files' = processing_files ]_vars
  /\ [][ (h_pc \in {"sample1", "sample2"} /\ h_pc' = "idle" /\ h_log' = "unstable")
         => (h_pc = "sample2" /\ content[h_path] # 0) ]_vars
  /\ (h_pc \in {"sample1", "sample2"}) ~> (h_pc \in {"idle", "add"})

\* C32 witness: the first max_attempts - 1 comparisons were unequal and the
\* last one allowed found equal samples: the path is stable.
C32_Witness ==
  /\ h_pc = "add" /\ Len(h_samples) = 2 * max_attempts
  /\ h_attempt = max_attempts - 1

\* C33 (no admission left behind): every member of processing_files has a
\* task that is queued or held by a worker.
C33_InFlightHasTask == \A p \in processing_files : TasksFor(p) > 0

\* C34 (test mode): a start_monitoring(0) makes one directory check and no
\* more, and when it has returned after uploads that all succeeded the value
\* it returned is truthy.
C34_TestModeOnePass ==
  check_interval = 0 =>
    /\ n_checks <= 1
    /\ ( ( /\ mon_pc = "returned"
           /\ \E p \in paths : mon_uploads[p] # <<>>
           /\ \A p \in paths : \A i \in DOMAIN mon_uploads[p] : mon_uploads[p][i] )
         => mon_result = "True" )

\* C38 (at most once): processed_files only grows, a file is in
\* processed_files from the moment it is listed for upload, and
\* _activate_venv_and_upload has been called at most once for every path.
C38_AtMostOnce ==
  /\ [][processed_files \subseteq processed_files']_vars
  /\ [](new_files \subseteq processed_files)
  /\ [](\A p \in paths : Len(mon_uploads[p]) <= 1)
  /\ [](\A p \in paths : mon_uploads[p] # <<>> => p \in processed_files)

\* C38 witness: the upload of A failed, A was modified afterwards, and a
\* later check has passed without a second upload.
C38_Witness ==
  /\ mon_uploads["A"] = <<FALSE>>
  /\ n_writes = 1 /\ content["A"] = 2
  /\ n_checks = 2 /\ mon_pc = "upload" /\ new_files = {}

\* C35 (recorded digest matches uploaded content): the digest a worker
\* writes to uploaded_files for path p is the digest of the content the
\* remote store holds for p after the upload of that task.
C35_RecordedIsUploaded ==
  [][ \A w \in Workers :
        (w_pc[w] = "record" /\ w_pc'[w] # "record")
          => uploaded_files'[w_path[w]] = MD5(remote[w_path[w]]) ]_vars

\* C36 (ok implies content present): when _upload_single_file returns
\* (True, message) for a file, the remote store then holds the file's
\* content under its name, or the key of that content was in
\* existing_files_cache before the call.
C36_OkImpliesContentPresent ==
  [][ \A w \in Workers :
        (w_pc[w] = "upload" /\ w_pc'[w] = "md5")
          => \/ remote'[w_path[w]] = content[w_path[w]]
             \/ CacheKey(w_path[w], content[w_path[w]]) \in existing_files_cache ]_vars

\* C37 (quiescence after stop): once stop() has returned, no step invokes
\* the uploader, takes a task from or puts a task on the queue, or changes
\* uploaded_files, processing_files or the stats counters.
C37_QuiescentAfterStop ==
  [][ m_pc = "stopped"
        => /\ invoked' = invoked
           /\ upload_queue' = upload_queue
           /\ uploaded_files' = uploaded_files
           /\ processing_files' = processing_files
           /\ stats' = stats ]_vars
====
